---- MODULE Spec2Model ----
(***************************************************************************)
(* A state-machine model of the two-tier cache of app/cache/layer.py:      *)
(* CacheLayer (get / set / delete / delete_pattern / init_cache), the      *)
(* RedisMemoryGuard pressure monitor and the per-key lock registry.        *)
(*                                                                         *)
(* The program runs on one asyncio event loop: code between two awaits     *)
(* that really suspend runs atomically.  Every action below resumes one    *)
(* coroutine at the await it is suspended on and runs it to its next       *)
(* suspension (or to its end).  The synchronous blocks are operators on    *)
(* the bundled state record S; a block ends by parking the coroutine at    *)
(* an await (pc) or by calling the block that follows it in the source.    *)
(***************************************************************************)
EXTENDS Integers, Sequences, FiniteSets, TLC

\* ------------------------------------------------------------------ bounds
NProcs == 2
MaxOps == 2
MaxTicks == 1

MaxUsed == 12
MaxMem == 10

\* ------------------------------------------------------- program constants
LockTTL == 300
L1TTL == 60
L2DefaultTTL == 300
RefreshInterval == 5
HighPressureCap == 60

Procs == 1..NProcs

\* Cache keys as the segments of "task:<id>"; a pattern may hold "*".
Keys == {<<"task", "1">>, <<"task", "2">>}
Patterns == {<<"task", "*">>, <<"task", "1">>}

\* Python values handed to the cache.  "plain" is JSON-native; "rich" stands
\* for a payload holding a non-JSON type (the datetime fields of
\* Task.model_dump()), which json.dumps(default=str) turns into a string.
None == "None"
Values == {"plain", "rich"}

\* The row of task 1 as Task.model_dump() shows it, before and after a write
\* of the service (update_task, complete_task); it holds datetime fields.
RowOld == "row_v1"
RowNew == "row_v2"
TTLArgs == {0, 120}

\* Durations by which the clock may advance in one step.
TickSteps == {60, 300}

\* What the backend reports for INFO memory: used_memory and maxmemory.
MemChoices == {[used |-> 3, maxm |-> 0], [used |-> 5, maxm |-> 10],
               [used |-> 7, maxm |-> 10], [used |-> 9, maxm |-> 10],
               [used |-> 10, maxm |-> 10]}

VARIABLES
  pc,           \* pc[p]: the await coroutine p is suspended on; "start" for
                \* a task created and not yet run; "idle" between calls
  op,           \* op[p]: the call p is running (or ran last) and its arguments
  loc,          \* loc[p]: the call's local variables
  res,          \* res[p]: how p's last call ended
  quota,        \* quota[p]: calls p may still make
  initialized,  \* CacheLayer._initialized
  redis,        \* CacheLayer._redis is not None
  guard,        \* CacheLayer._memory_guard is not None
  ggen,         \* identity of the current RedisMemoryGuard object
  gcached,      \* RedisMemoryGuard._cached: -1 for None, else the level
  glast,        \* RedisMemoryGuard._last_check
  l1,           \* CacheLayer.l1, the TTLCache of the local tier
  l2,           \* the shared tier's keys under the l2 namespace
  locks,        \* _locks, the TTLCache key -> lock
  lk,           \* the asyncio.Lock objects created so far
  stats,        \* CacheLayer.stats
  now,          \* the event loop's clock, seconds
  ticks,        \* clock steps taken
  mem,          \* the backend's memory usage
  loads,        \* history: loads[k] counts the loader invocations for k
  nfail,        \* history: shared-tier GET/SET/DEL/SCAN calls that raised
  ifail,        \* history: PING and INFO calls that raised
  db            \* the database's row of task 1, as model_dump() shows it

vars == <<pc, op, loc, res, quota, initialized, redis, guard, ggen, gcached,
          glast, l1, l2, locks, lk, stats, now, ticks, mem, loads, nfail, ifail,
          db>>

\* The state as one record, for the synchronous blocks.
St == [pc |-> pc, op |-> op, loc |-> loc, res |-> res, quota |-> quota,
       initialized |-> initialized, redis |-> redis, guard |-> guard,
       ggen |-> ggen, gcached |-> gcached, glast |-> glast, l1 |-> l1,
       l2 |-> l2, locks |-> locks, lk |-> lk, stats |-> stats, now |-> now,
       ticks |-> ticks, mem |-> mem, loads |-> loads, nfail |-> nfail,
       ifail |-> ifail, db |-> db]

Becomes(S) ==
  /\ pc' = S.pc /\ op' = S.op /\ loc' = S.loc /\ res' = S.res
  /\ quota' = S.quota /\ initialized' = S.initialized /\ redis' = S.redis
  /\ guard' = S.guard /\ ggen' = S.ggen /\ gcached' = S.gcached
  /\ glast' = S.glast /\ l1' = S.l1 /\ l2' = S.l2 /\ locks' = S.locks
  /\ lk' = S.lk /\ stats' = S.stats /\ now' = S.now /\ ticks' = S.ticks
  /\ mem' = S.mem /\ loads' = S.loads /\ nfail' = S.nfail /\ ifail' = S.ifail
  /\ db' = S.db

Min(a, b) == IF a <= b THEN a ELSE b
Max(a, b) == IF a >= b THEN a ELSE b

\* ------------------------------------------------------------ stdlib logging
\* logger = logging.getLogger(__name__): a standard-library Logger, nowhere
\* configured, so its effective level is the root's default, WARNING.  A call
\* below that level returns at once; an enabled call passes its keyword
\* arguments to Logger._log, which accepts none of key=, pattern=, level=,
\* ratio=, policy=, deleted= and raises TypeError.
LevelNo == [debug |-> 10, info |-> 20, warning |-> 30, error |-> 40]
EffectiveLevel == LevelNo.warning
LogRaises(level, kwargs) == kwargs /\ LevelNo[level] >= EffectiveLevel

\* --------------------------------------------------------------- the tiers
NoEntry == [has |-> FALSE, v |-> None, exp |-> 0]
NoRaw == <<"nil", "nil">>
NoL2 == [has |-> FALSE, raw |-> NoRaw, ttl |-> 0, exp |-> 0, base |-> 0,
         lvl |-> -1]
NoLock == [id |-> 0, exp |-> 0]

\* TTLCache.__contains__ / __getitem__: an entry is gone once timer() >= expires.
L1Has(S, k) == S.l1[k].has /\ S.now < S.l1[k].exp
\* TTLCache.__setitem__: expires = timer() + ttl.
L1Set(S, k, v) ==
  [S EXCEPT !.l1[k] = [has |-> TRUE, v |-> v, exp |-> S.now + L1TTL]]
L1Pop(S, k) == [S EXCEPT !.l1[k] = NoEntry]

\* Redis GET on a key written with SET ... EX ttl.
L2Raw(S, k) ==
  IF S.l2[k].has /\ S.now < S.l2[k].exp THEN S.l2[k].raw ELSE NoRaw

\* json.dumps(value, default=str): a non-JSON part is replaced by its str().
JsonForm(v) ==
  CASE v = "rich" -> "rich_str"
    [] v = RowOld -> "row_v1_str"
    [] v = RowNew -> "row_v2_str"
    [] OTHER -> v
Serialize(v) == <<"json", JsonForm(v)>>
\* json.loads(raw).  Every raw string of the l2 namespace was written by
\* Serialize, so the JSONDecodeError fallback (line 188) is never taken.
Deserialize(raw) == raw[2]

\* Redis glob match of the l2-namespaced pattern against an l2 key.
Matches(pat, k) ==
  \A i \in 1..Len(pat) : pat[i] = "*" \/ pat[i] = k[i]

\* The level of a sample without the clamp at 10.
PressureLevelUnclamped(m) ==
  IF m.maxm = 0 THEN 0 ELSE (m.used * 10) \div m.maxm

\* RedisMemoryGuard.check, lines 44-63: the level of a sample.  The code
\* computes int(min(used / maxm * 10, 10)) in doubles; for byte counts below
\* 2^50 that is the integer quotient below.
PressureLevel(m) ==
  IF m.maxm = 0 THEN 0 ELSE Min((m.used * 10) \div m.maxm, 10)

\* ------------------------------------------------------ the end of a call
\* A scoped acquisition that releases only when the block returns.
LockAExitOnReturn(S, p, kind) ==
  LET id == S.loc[p].lock IN
  IF id # 0 /\ S.lk[id].holder = p /\ kind = "ret"
    THEN [S EXCEPT !.lk[id].holder = 0]
    ELSE S

\* asyncio.Lock.release by `async with lock` (__aexit__), on every way out.
LockAExit(S, p, kind) ==
  LET id == S.loc[p].lock IN
  IF id # 0 /\ S.lk[id].holder = p
    THEN [S EXCEPT !.lk[id].holder = 0]
    ELSE S

NoLoc == [lock |-> 0, val |-> None, ttl |-> 0, lvl |-> -1, tchk |-> 0,
          gg |-> 0, todo |-> {}, batch |-> {}, cnt |-> 0]

Finish(S, p, kind, v) ==
  [S EXCEPT !.pc[p] = "idle",
            !.res[p] = [kind |-> kind, v |-> v,
                        loaded |-> S.res[p].loaded, fails |-> S.res[p].fails,
                        lvl |-> S.loc[p].lvl, cnt |-> S.loc[p].cnt,
                        m0 |-> S.res[p].m0, l0 |-> S.res[p].l0,
                        prev |-> S.res[p].prev],
            !.loc[p] = NoLoc]

\* A call that ends without leaving its `async with` block.
EndOpKeepsLock(S, p, kind, v) == Finish(S, p, kind, v)

\* Every way out of a call passes through the exit of `async with lock`.
EndOp(S, p, kind, v) == Finish(LockAExit(S, p, kind), p, kind, v)
Return(S, p, v) == EndOp(S, p, "ret", v)
Raise(S, p, e) == EndOp(S, p, "raise", e)

\* History: a shared-tier call of p's raised RedisError.
Failed(S, p) == [S EXCEPT !.res[p].fails = @ + 1, !.nfail = @ + 1]

\* ------------------------------------------------- RedisMemoryGuard.check
\* Lines 36-40: the cached snapshot is returned while it is fresh.
CheckCached(S) == S.gcached # -1 /\ (S.now - S.glast) < RefreshInterval

\* A check that lets the query's RedisError escape.
CheckFinishPropagates(S, p, ok) ==
  LET level == PressureLevel(S.mem)
      sameGuard == S.guard /\ S.ggen = S.loc[p].gg
      stored == IF sameGuard
                  THEN [S EXCEPT !.gcached = level, !.glast = S.loc[p].tchk]
                  ELSE S
  IN IF ~ok THEN [st |-> [S EXCEPT !.ifail = @ + 1], raised |-> TRUE,
                  level |-> 0]
     ELSE IF S.mem.maxm = 0 THEN [st |-> stored, raised |-> FALSE, level |-> 0]
     ELSE IF level >= 9 /\ LogRaises("warning", TRUE)
       THEN [st |-> S, raised |-> TRUE, level |-> level]
     ELSE IF level >= 7 /\ level < 9 /\ LogRaises("info", TRUE)
       THEN [st |-> S, raised |-> TRUE, level |-> level]
     ELSE [st |-> stored, raised |-> FALSE, level |-> level]

\* Lines 42-85, after `await self.redis.info("memory")` has answered (ok) or
\* raised RedisError.  A level >= 9 logs a warning with keyword arguments
\* before the snapshot is stored; the handler of RedisError logs without.
CheckFinish(S, p, ok) ==
  LET level == PressureLevel(S.mem)
      sameGuard == S.guard /\ S.ggen = S.loc[p].gg
      stored == IF sameGuard
                  THEN [S EXCEPT !.gcached = level, !.glast = S.loc[p].tchk]
                  ELSE S
  IN IF ~ok THEN [st |-> [S EXCEPT !.ifail = @ + 1], raised |-> FALSE,
                  level |-> 0]
     ELSE IF S.mem.maxm = 0 THEN [st |-> stored, raised |-> FALSE, level |-> 0]
     ELSE IF level >= 9 /\ LogRaises("warning", TRUE)
       THEN [st |-> S, raised |-> TRUE, level |-> level]
     ELSE IF level >= 7 /\ level < 9 /\ LogRaises("info", TRUE)
       THEN [st |-> S, raised |-> TRUE, level |-> level]
     ELSE [st |-> stored, raised |-> FALSE, level |-> level]

\* ------------------------------------------- CacheLayer._set_both_layers
\* Line 311: base_ttl = l2_ttl or self._settings.l2_ttl_seconds.
BaseTTL(o) == IF o.ttl # 0 THEN o.ttl ELSE L2DefaultTTL

\* _adjust_ttl_for_pressure, lines 200-211.  int(base_ttl * 0.8) is the
\* floor of 8*base/10 for the non-negative integers a TTL is.
AdjustTTL(base, level) ==
  IF level >= 9 THEN 0
  ELSE IF level >= 7 THEN Min(base, HighPressureCap)
  ELSE IF level >= 5 THEN Max((base * 8) \div 10, 1)
  ELSE base

\* The value the call returns once _set_both_layers is through: get returns
\* the loaded value (line 298), set returns nothing (line 338).
SetBothReturn(S, p) ==
  Return(S, p, IF S.op[p].name = "get" THEN S.loc[p].val ELSE None)

\* Lines 314-321, with the level _adjust_ttl_for_pressure read.
SetAfterAdjust(S, p, level) ==
  LET ttl == AdjustTTL(BaseTTL(S.op[p]), level)
      S1 == [S EXCEPT !.loc[p].lvl = level]
  IN IF ttl = 0
       THEN SetBothReturn([S1 EXCEPT !.stats.pressure_skips = @ + 1], p)
     ELSE IF ~S1.redis THEN Raise(S1, p, "AttributeError")
     ELSE [S1 EXCEPT !.pc[p] = "s_set", !.loc[p].ttl = ttl]

\* Lines 302-312: the local tier is written first; the shared tier's TTL
\* comes from _adjust_ttl_for_pressure, which returns base_ttl when there is
\* no memory guard and otherwise asks RedisMemoryGuard.check.
SetBothLayers(S, p) ==
  LET S1 == L1Set(S, S.op[p].key, S.loc[p].val)
  IN IF ~S1.redis THEN SetBothReturn(S1, p)
     ELSE IF ~S1.guard
       THEN [S1 EXCEPT !.pc[p] = "s_set", !.loc[p].ttl = BaseTTL(S1.op[p])]
     ELSE IF CheckCached(S1) THEN SetAfterAdjust(S1, p, S1.gcached)
     ELSE [S1 EXCEPT !.pc[p] = "s_info", !.loc[p].tchk = S1.now,
                     !.loc[p].gg = S1.ggen]

\* ------------------------------------------------------------ CacheLayer.get
\* Lines 288-291: count the miss and call the loader.
LoadStart(S, p) ==
  [S EXCEPT !.stats.misses = @ + 1,
            !.loads[S.op[p].key] = @ + 1,
            !.res[p].loaded = @ + 1,
            !.pc[p] = "g_load"]

\* Lines 274-280, entered holding the lock: the double check.
InLock(S, p) ==
  LET k == S.op[p].key IN
  IF L1Has(S, k) THEN Return(S, p, S.l1[k].v)
  ELSE IF S.redis THEN [S EXCEPT !.pc[p] = "g_l2b"]
  ELSE LoadStart(S, p)

\* A registry that keeps one lock for all keys.
GetLockForKeyGlobal(S, k) ==
  LET g == <<"task", "1">> IN
  IF S.locks[g].id # 0 /\ S.now < S.locks[g].exp
    THEN [st |-> S, id |-> S.locks[g].id]
    ELSE [st |-> [S EXCEPT !.locks[g] = [id |-> Len(S.lk) + 1,
                                         exp |-> S.now + LockTTL],
                           !.lk = Append(@, [holder |-> 0, waiters |-> <<>>])],
          id |-> Len(S.lk) + 1]

\* _get_lock_for_key, line 462: _locks.setdefault(key, asyncio.Lock()).  The
\* TTLCache answers with the entry's lock while the entry has not expired
\* (expiry counts from the insertion) and stores the new lock otherwise.
GetLockForKey(S, k) ==
  IF S.locks[k].id # 0 /\ S.now < S.locks[k].exp
    THEN [st |-> S, id |-> S.locks[k].id]
    ELSE [st |-> [S EXCEPT !.locks[k] = [id |-> Len(S.lk) + 1,
                                         exp |-> S.now + LockTTL],
                           !.lk = Append(@, [holder |-> 0, waiters |-> <<>>])],
          id |-> Len(S.lk) + 1]

\* Lines 272-273: `async with lock`.  asyncio.Lock.acquire takes a free lock
\* nobody waits for at once and queues behind the waiters otherwise.
AcquireLock(S, p) ==
  LET r == GetLockForKey(S, S.op[p].key)
      id == r.id
      S1 == [r.st EXCEPT !.loc[p].lock = id]
  IN IF S1.lk[id].holder = 0 /\ S1.lk[id].waiters = <<>>
       THEN InLock([S1 EXCEPT !.lk[id].holder = p], p)
       ELSE [S1 EXCEPT !.lk[id].waiters = Append(@, p), !.pc[p] = "g_lock"]

\* Lines 265-269, with the level the guard answered.
GetAfterCheck(S, p, level) ==
  LET S1 == [S EXCEPT !.loc[p].lvl = level] IN
  IF level >= 10
    THEN IF LogRaises("warning", TRUE) THEN Raise(S1, p, "TypeError")
         ELSE [S1 EXCEPT !.stats.pressure_skips = @ + 1,
                         !.loads[S.op[p].key] = @ + 1,
                         !.res[p].loaded = @ + 1,
                         !.pc[p] = "g_direct"]
    ELSE AcquireLock(S1, p)

\* Lines 256-264: no loader is a plain miss; else the pressure check.
GetNoCache(S, p) ==
  IF ~S.op[p].ld
    THEN Return([S EXCEPT !.stats.misses = @ + 1], p, None)
  ELSE IF ~S.guard THEN AcquireLock(S, p)
  ELSE IF CheckCached(S) THEN GetAfterCheck(S, p, S.gcached)
  ELSE [S EXCEPT !.pc[p] = "g_info", !.loc[p].tchk = S.now,
                 !.loc[p].gg = S.ggen]

\* Lines 232-244: the local tier, then the shared tier.
GetL1(S, p) ==
  LET k == S.op[p].key IN
  IF L1Has(S, k)
    THEN Return([S EXCEPT !.stats.l1_hits = @ + 1], p, S.l1[k].v)
  ELSE IF S.redis THEN [S EXCEPT !.pc[p] = "g_l2"]
  ELSE GetNoCache(S, p)

\* --------------------------------------------------------- CacheLayer.delete
\* delete returns to its caller: to the application, or to the wrapper of
\* async_cached_expire (decorators.py:40-41), which then awaits the wrapped
\* service function.
DeleteReturn(S, p) ==
  IF S.op[p].name = "update_task" THEN [S EXCEPT !.pc[p] = "x_fn"]
  ELSE Return(S, p, None)

\* A delete that leaves the shared tier alone.
DeleteKeyLocalOnly(S, p) == DeleteReturn(L1Pop(S, S.op[p].key), p)

\* Lines 349-358.
DeleteKey(S, p) ==
  LET S1 == L1Pop(S, S.op[p].key) IN
  IF S1.redis THEN [S1 EXCEPT !.pc[p] = "d_del"] ELSE DeleteReturn(S1, p)

\* ------------------------------------------------- CacheLayer.delete_pattern
\* Lines 372-381: nothing without a connection; else the first SCAN.  todo is
\* the part of the keyspace the cursor has not visited yet.
DeletePatternStart(S, p) ==
  IF ~S.redis THEN Return(S, p, None)
  ELSE [S EXCEPT !.pc[p] = "dp_scan", !.loc[p].todo = Keys, !.loc[p].cnt = 0]

\* Lines 387-392: cursor == 0 ends the loop; the function returns nothing.
DeletePatternLoop(S, p) ==
  IF S.loc[p].todo = {}
    THEN IF LogRaises("info", TRUE) THEN Raise(S, p, "TypeError")
         ELSE Return(S, p, None)
  ELSE IF ~S.redis THEN Raise(S, p, "AttributeError")
  ELSE [S EXCEPT !.pc[p] = "dp_scan"]

\* ------------------------------------------------------ CacheLayer.init_cache
\* Lines 153-154.
NewGuard(S) ==
  IF S.guard THEN S
  ELSE [S EXCEPT !.guard = TRUE, !.ggen = @ + 1, !.gcached = -1, !.glast = 0]

\* What the call does once `await self.init_cache()` has returned.
Dispatch(S, p) ==
  CASE S.op[p].name = "get" -> GetL1(S, p)
    [] S.op[p].name = "set" -> SetBothLayers(S, p)
    [] S.op[p].name \in {"delete", "update_task"} -> DeleteKey(S, p)
    [] S.op[p].name = "delete_pattern" -> DeletePatternStart(S, p)
    [] OTHER -> Return(S, p, None)

\* Lines 121-149: up to `await self._redis.ping()`.
InitCache(S, p) ==
  IF S.initialized THEN Dispatch(S, p)
  ELSE IF ~S.redis THEN [S EXCEPT !.redis = TRUE, !.pc[p] = "ping"]
  ELSE Dispatch([NewGuard(S) EXCEPT !.initialized = TRUE], p)

\* ------------------------------------------------------------------- calls
NoRes == [kind |-> "none", v |-> None, loaded |-> 0, fails |-> 0, lvl |-> -1,
          cnt |-> 0, m0 |-> 0, l0 |-> 0,
          prev |-> [kind |-> "none", v |-> None]]
NoOp == [name |-> "none", key |-> <<"task", "1">>, v |-> None, ttl |-> 0,
         ld |-> FALSE]

GetOps == {[name |-> "get", key |-> k, v |-> None, ttl |-> t, ld |-> l] :
             k \in Keys, t \in TTLArgs, l \in BOOLEAN}
SetOps == {[name |-> "set", key |-> k, v |-> v, ttl |-> t, ld |-> FALSE] :
             k \in Keys, v \in Values, t \in TTLArgs}
DeleteOps == {[name |-> "delete", key |-> k, v |-> None, ttl |-> 0,
               ld |-> FALSE] : k \in Keys}
PatternOps == {[name |-> "delete_pattern", key |-> q, v |-> None, ttl |-> 0,
                ld |-> FALSE] : q \in Patterns}
InitOps == {[name |-> "init", key |-> <<"task", "1">>, v |-> None, ttl |-> 0,
             ld |-> FALSE]}
AllOps == {o \in GetOps : o.ttl = 120} \cup SetOps \cup DeleteOps
          \cup PatternOps \cup InitOps

\* What a loader may do: return a value, return None, or raise.
LoaderResults == Values \cup {None, "LoaderError"}

\* The call's arguments become its locals.  History: res[p].m0 is the number
\* of shared-tier keys that match the call's key or pattern as it is made,
\* res[p].l0 the number of loader invocations for its key made before it.
Started(S, p, o) ==
  [S EXCEPT !.op[p] = o, !.quota[p] = @ - 1,
            !.res[p] = [NoRes EXCEPT
                          !.m0 = Cardinality(
                            {k \in Keys : L2Raw(S, k) # NoRaw /\ Matches(o.key, k)}),
                          !.l0 = IF o.key \in Keys THEN S.loads[o.key] ELSE 0,
                          !.prev = IF /\ o.name = "get" /\ o.ld
                                      /\ S.op[p].name = "set" /\ S.op[p].key = o.key
                                     THEN [kind |-> S.res[p].kind, v |-> S.op[p].v]
                                     ELSE NoRes.prev],
            !.loc[p] = [NoLoc EXCEPT !.val = o.v]]

\* A caller awaits get, set, delete, delete_pattern or init_cache: the call
\* runs at once, up to its first suspension.
Call(p, o) ==
  /\ pc[p] = "idle"
  /\ quota[p] > 0
  /\ Becomes(InitCache(Started(St, p, o), p))

\* A call made as a task of its own (asyncio.gather, one task per request)
\* takes its first step.
Begin(p) ==
  /\ pc[p] = "start"
  /\ Becomes(InitCache(St, p))

\* Line 149: the ping answers, or raises RedisError (lines 159-163).
PingDone(p, ok) ==
  /\ pc[p] = "ping"
  /\ Becomes(IF ok
               THEN Dispatch([NewGuard(St) EXCEPT !.initialized = TRUE], p)
               ELSE Dispatch([St EXCEPT !.redis = FALSE, !.guard = FALSE,
                                        !.ifail = @ + 1], p))

\* A shared-tier hit that is returned without being copied to the local tier.
L2GetDoneNoPopulate(p, ok) ==
  /\ pc[p] = "g_l2"
  /\ LET k == op[p].key
         raw == L2Raw(St, k)
         v == Deserialize(raw)
     IN Becomes(
          IF ~ok
            THEN IF LogRaises("error", TRUE)
                   THEN Raise(Failed(St, p), p, "TypeError")
                   ELSE GetNoCache([Failed(St, p) EXCEPT
                                      !.stats.errors = @ + 1], p)
          ELSE IF raw # NoRaw
            THEN Return([St EXCEPT !.stats.l2_hits = @ + 1], p, v)
          ELSE GetNoCache(St, p))

\* Line 244: the first shared-tier lookup answers (lines 245-251) or raises
\* RedisError (lines 252-254).
L2GetDone(p, ok) ==
  /\ pc[p] = "g_l2"
  /\ LET k == op[p].key
         raw == L2Raw(St, k)
         v == Deserialize(raw)
     IN Becomes(
          IF ~ok
            THEN IF LogRaises("error", TRUE)
                   THEN Raise(Failed(St, p), p, "TypeError")
                   ELSE GetNoCache([Failed(St, p) EXCEPT
                                      !.stats.errors = @ + 1], p)
          ELSE IF raw # NoRaw
            THEN Return(L1Set([St EXCEPT !.stats.l2_hits = @ + 1], k, v), p, v)
          ELSE GetNoCache(St, p))

\* Line 43: INFO memory answers or raises, in check called from get (line
\* 264) or from _adjust_ttl_for_pressure (line 197).
InfoDone(p, ok) ==
  /\ pc[p] \in {"g_info", "s_info"}
  /\ LET r == CheckFinish(St, p, ok) IN
     Becomes(IF r.raised THEN Raise(r.st, p, "TypeError")
             ELSE IF pc[p] = "g_info" THEN GetAfterCheck(r.st, p, r.level)
             ELSE SetAfterAdjust(r.st, p, r.level))

\* Line 273: a queued acquire gets the lock: it is free and p waits first.
LockAcquired(p) ==
  /\ pc[p] = "g_lock"
  /\ LET id == loc[p].lock IN
     /\ lk[id].holder = 0
     /\ lk[id].waiters # <<>>
     /\ Head(lk[id].waiters) = p
     /\ Becomes(InLock([St EXCEPT !.lk[id].holder = p,
                                  !.lk[id].waiters = Tail(@)], p))

\* Line 280: the lookup under the lock answers (lines 281-284) or raises
\* RedisError (lines 285-286: logged, not counted).
L2RecheckDone(p, ok) ==
  /\ pc[p] = "g_l2b"
  /\ LET k == op[p].key
         raw == L2Raw(St, k)
         v == Deserialize(raw)
     IN Becomes(
          IF ~ok
            THEN IF LogRaises("error", TRUE)
                   THEN Raise(Failed(St, p), p, "TypeError")
                   ELSE LoadStart(Failed(St, p), p)
          ELSE IF raw # NoRaw THEN Return(L1Set(St, k, v), p, v)
          ELSE LoadStart(St, p))

\* A get that writes back whatever the loader returned, None included.
LoaderDoneCachesNone(p, r) ==
  /\ pc[p] \in {"g_load", "g_direct"}
  /\ Becomes(IF r = "LoaderError" THEN Raise(St, p, r)
             ELSE IF pc[p] = "g_direct" THEN Return(St, p, r)
             ELSE SetBothLayers([St EXCEPT !.loc[p].val = r], p))

\* Lines 291-298 (and 269): the loader returns or raises.
LoaderDone(p, r) ==
  /\ pc[p] \in {"g_load", "g_direct"}
  /\ Becomes(IF r = "LoaderError" THEN Raise(St, p, r)
             ELSE IF pc[p] = "g_direct" \/ r = None THEN Return(St, p, r)
             ELSE SetBothLayers([St EXCEPT !.loc[p].val = r], p))

\* Line 321: SET ... EX ttl answers (line 322) or raises (lines 324-326).
RedisSetDone(p, ok) ==
  /\ pc[p] = "s_set"
  /\ LET k == op[p].key
         entry == [has |-> TRUE, raw |-> Serialize(loc[p].val),
                   ttl |-> loc[p].ttl, exp |-> now + loc[p].ttl,
                   base |-> BaseTTL(op[p]), lvl |-> loc[p].lvl]
     IN Becomes(
          IF ok THEN SetBothReturn([St EXCEPT !.l2[k] = entry], p)
          ELSE IF LogRaises("error", TRUE)
            THEN Raise(Failed(St, p), p, "TypeError")
          ELSE SetBothReturn([Failed(St, p) EXCEPT !.stats.errors = @ + 1], p))

\* Line 358: DEL answers (line 359) or raises (lines 360-362).
RedisDeleteDone(p, ok) ==
  /\ pc[p] = "d_del"
  /\ Becomes(
       IF ok THEN DeleteReturn([St EXCEPT !.l2[op[p].key] = NoL2], p)
       ELSE IF LogRaises("error", TRUE)
         THEN Raise(Failed(St, p), p, "TypeError")
       ELSE DeleteReturn([Failed(St, p) EXCEPT !.stats.errors = @ + 1], p))

\* Lines 381-388: one SCAN answers with the matching keys among the part b of
\* the keyspace it visited, or raises (lines 394-396).
ScanDone(p, ok, b) ==
  /\ pc[p] = "dp_scan"
  /\ b \subseteq loc[p].todo /\ b # {}
  /\ LET keys == {k \in b : L2Raw(St, k) # NoRaw /\ Matches(op[p].key, k)}
         S1 == [St EXCEPT !.loc[p].todo = @ \ b, !.loc[p].batch = keys]
     IN Becomes(
          IF ~ok
            THEN IF LogRaises("error", TRUE)
                   THEN Raise(Failed(St, p), p, "TypeError")
                   ELSE Return([Failed(St, p) EXCEPT
                                  !.stats.errors = @ + 1], p, None)
          ELSE IF keys = {} THEN DeletePatternLoop(S1, p)
          ELSE IF ~S1.redis THEN Raise(S1, p, "AttributeError")
          ELSE [S1 EXCEPT !.pc[p] = "dp_del"])

\* A batch delete that also drops the batch's keys from the local tier.
BatchDeleteDoneBothTiers(p, ok) ==
  /\ pc[p] = "dp_del"
  /\ LET keys == loc[p].batch
         S1 == [St EXCEPT !.l2 = [k \in Keys |->
                                    IF k \in keys THEN NoL2 ELSE @[k]],
                          !.l1 = [k \in Keys |->
                                    IF k \in keys THEN NoEntry ELSE @[k]],
                          !.loc[p].cnt = @ + Cardinality(keys),
                          !.loc[p].batch = {}]
     IN Becomes(
          IF ok THEN DeletePatternLoop(S1, p)
          ELSE IF LogRaises("error", TRUE)
            THEN Raise(Failed(St, p), p, "TypeError")
          ELSE Return([Failed(St, p) EXCEPT !.stats.errors = @ + 1], p, None))

\* Lines 385-388: DEL of the batch answers, or raises (lines 394-396).
BatchDeleteDone(p, ok) ==
  /\ pc[p] = "dp_del"
  /\ LET keys == loc[p].batch
         S1 == [St EXCEPT !.l2 = [k \in Keys |->
                                    IF k \in keys THEN NoL2 ELSE @[k]],
                          !.loc[p].cnt = @ + Cardinality(keys),
                          !.loc[p].batch = {}]
     IN Becomes(
          IF ok THEN DeletePatternLoop(S1, p)
          ELSE IF LogRaises("error", TRUE)
            THEN Raise(Failed(St, p), p, "TypeError")
          ELSE Return([Failed(St, p) EXCEPT !.stats.errors = @ + 1], p, None))

\* The caller abandons the call: CancelledError is raised at the await the
\* coroutine is suspended on; a queued acquire leaves the lock's queue.
Cancel(p) ==
  /\ pc[p] \notin {"idle", "start"}
  /\ LET id == loc[p].lock
         S1 == IF pc[p] = "g_lock"
                 THEN [St EXCEPT !.lk[id].waiters =
                                   SelectSeq(@, LAMBDA q : q # p)]
                 ELSE St
     IN Becomes(EndOp(S1, p, "cancel", "CancelledError"))

\* Time passes.  Expired entries of the TTLCaches and of the shared tier are
\* dropped here; every read tests the expiry itself, so nothing observes when.
Tick(d) ==
  /\ ticks < MaxTicks
  /\ LET t == now + d IN
     Becomes([St EXCEPT
       !.now = t, !.ticks = @ + 1,
       !.l1 = [k \in Keys |-> IF @[k].has /\ t < @[k].exp THEN @[k] ELSE NoEntry],
       !.l2 = [k \in Keys |-> IF @[k].has /\ t < @[k].exp THEN @[k] ELSE NoL2],
       !.locks = [k \in Keys |->
                    IF @[k].id # 0 /\ t < @[k].exp THEN @[k] ELSE NoLock]])

\* The backend's memory usage changes.
MemChange(m) ==
  /\ m # mem
  /\ mem' = m
  /\ UNCHANGED <<pc, op, loc, res, quota, initialized, redis, guard, ggen,
                 gcached, glast, l1, l2, locks, lk, stats, now, ticks, loads,
                 nfail, ifail, db>>

\* The state after `cache_layer = CacheLayer()` (line 466), less the callers.
Constructed ==
  /\ loc = [p \in Procs |-> NoLoc]
  /\ res = [p \in Procs |-> NoRes]
  /\ initialized = FALSE /\ redis = FALSE /\ guard = FALSE
  /\ ggen = 0 /\ gcached = -1 /\ glast = 0
  /\ l1 = [k \in Keys |-> NoEntry]
  /\ l2 = [k \in Keys |-> NoL2]
  /\ locks = [k \in Keys |-> NoLock]
  /\ lk = <<>>
  /\ stats = [l1_hits |-> 0, l2_hits |-> 0, misses |-> 0, errors |-> 0,
              pressure_skips |-> 0]
  /\ now = 0 /\ ticks = 0
  /\ loads = [k \in Keys |-> 0]
  /\ nfail = 0 /\ ifail = 0
  /\ db = RowOld

\* ------------------------------------------------------------------------
\* Spec: one caller making up to MaxOps calls, one after the other, of any
\* operation with any arguments, while time passes and the backend fails at
\* will.
Init ==
  /\ Constructed
  /\ pc = [p \in Procs |-> "idle"]
  /\ op = [p \in Procs |-> NoOp]
  /\ quota = [p \in Procs |-> IF p = 1 THEN MaxOps ELSE 0]
  /\ mem \in MemChoices

Next ==
  \/ \E o \in AllOps : Call(1, o)
  \/ \E ok \in BOOLEAN : PingDone(1, ok)
  \/ \E ok \in BOOLEAN : L2GetDone(1, ok)
  \/ \E ok \in BOOLEAN : InfoDone(1, ok)
  \/ \E ok \in BOOLEAN : L2RecheckDone(1, ok)
  \/ \E r \in LoaderResults : LoaderDone(1, r)
  \/ \E ok \in BOOLEAN : RedisSetDone(1, ok)
  \/ \E ok \in BOOLEAN : RedisDeleteDone(1, ok)
  \/ \E ok \in BOOLEAN, b \in SUBSET Keys : ScanDone(1, ok, b)
  \/ \E ok \in BOOLEAN : BatchDeleteDone(1, ok)
  \/ \E d \in TickSteps : Tick(d)
  \/ \E m \in MemChoices : MemChange(m)

Spec == Init /\ [][Next]_vars

\* ------------------------------------------------------------------------
\* SpecGets: NProcs concurrent get(k, loader) calls on one key, each a task
\* of its own, all created at time 0 on the freshly constructed cache.
FlightKey == <<"task", "1">>
FlightMem == {[used |-> 3, maxm |-> 10], [used |-> 9, maxm |-> 10],
              [used |-> 10, maxm |-> 10]}

InitGets ==
  /\ Constructed
  /\ pc = [p \in Procs |-> "start"]
  /\ op = [p \in Procs |-> [name |-> "get", key |-> FlightKey, v |-> None,
                            ttl |-> 120, ld |-> TRUE]]
  /\ quota = [p \in Procs |-> 0]
  /\ mem \in FlightMem

NextGets ==
  \/ \E p \in Procs : Begin(p)
  \/ \E p \in Procs, ok \in BOOLEAN : PingDone(p, ok)
  \/ \E p \in Procs, ok \in BOOLEAN : L2GetDone(p, ok)
  \/ \E p \in Procs, ok \in BOOLEAN : InfoDone(p, ok)
  \/ \E p \in Procs : LockAcquired(p)
  \/ \E p \in Procs, ok \in BOOLEAN : L2RecheckDone(p, ok)
  \/ \E p \in Procs, r \in LoaderResults : LoaderDone(p, r)
  \/ \E p \in Procs, ok \in BOOLEAN : RedisSetDone(p, ok)
  \/ \E p \in Procs : Cancel(p)
  \/ \E d \in TickSteps : Tick(d)

SpecGets == InitGets /\ [][NextGets]_vars

\* ========================================================================
\* The claims.
\* ========================================================================
AllDone == \A p \in Procs : pc[p] = "idle"
Level == PressureLevel(mem)
\* No backend call raised, no call was cancelled, no loader raised or
\* returned None.
Undisturbed ==
  /\ nfail = 0 /\ ifail = 0
  /\ \A p \in Procs :
       /\ res[p].kind # "cancel"
       /\ res[p].v # "LoaderError"
       /\ ~(res[p].loaded > 0 /\ res[p].kind = "ret" /\ res[p].v = None)
InFlight(k) == {p \in Procs : pc[p] = "g_load" /\ op[p].key = k}
UsesLock(p) == pc[p] \in {"g_lock", "g_l2b", "g_load", "s_info", "s_set"}
                /\ loc[p].lock # 0
TiersEmpty(k) == ~L1Has(St, k) /\ L2Raw(St, k) = NoRaw

\* C1 (as claimed): when NProcs concurrent get(k, loader) calls on a key
\* absent from both tiers have all returned, at a pressure level below 9,
\* with a loader that returns a value and a backend that never fails, the
\* loader was invoked exactly once and every call returned the same value.
C1_SingleFlight ==
  (AllDone /\ Level < 9 /\ Undisturbed)
    => /\ loads[FlightKey] = 1
       /\ \A p, q \in Procs :
            res[p].kind = "ret" /\ res[q].kind = "ret" /\ res[p].v = res[q].v

\* C2 (as claimed): at most one loader invocation per key is in flight,
\* whatever time has passed.
C2_OneLoaderInFlight == \A k \in Keys : Cardinality(InFlight(k)) <= 1

\* C3 (as claimed): all callers that hold or wait on a lock for the same key
\* at the same time have the same lock instance.
C3_OneLockInUse ==
  \A p, q \in Procs :
    (UsesLock(p) /\ UsesLock(q) /\ op[p].key = op[q].key)
      => loc[p].lock = loc[q].lock

\* C4 (as claimed): at pressure level 10, once NProcs concurrent
\* get(k, loader) calls on an absent key have all ended, the loader was
\* invoked NProcs times, pressure_skips is NProcs and k is in neither tier.
C4_EmergencyBypass ==
  (AllDone /\ Level = 10 /\ Undisturbed)
    => /\ loads[FlightKey] = NProcs
       /\ stats.pressure_skips = NProcs
       /\ TiersEmpty(FlightKey)

\* C5 (as claimed): set(k, v) followed at once by get(k, loader), at any
\* pressure level and whether or not the shared tier answers: the set
\* returns, and the get returns v without invoking the loader.  Stated for a
\* get that has ended, made right after the set ended, no time having
\* passed since the set was called.
C5_SetThenGet ==
  (/\ pc[1] = "idle" /\ op[1].name = "get" /\ res[1].prev.kind # "none"
   /\ ticks = 0)
    => /\ res[1].prev.kind = "ret"
       /\ res[1].kind = "ret"
       /\ res[1].v = res[1].prev.v
       /\ res[1].loaded = 0

\* C6: once delete(k) has returned, with a connection to the shared tier, k
\* is in neither tier, at every pressure level.
C6_DeleteRemovesBoth ==
  (pc[1] = "idle" /\ op[1].name = "delete" /\ res[1].kind = "ret" /\ redis)
    => TiersEmpty(op[1].key)

\* C6's case: a delete has returned for a key the shared tier held when the
\* call was made, with the backend at level 9 or 10.
C6_Witness ==
  /\ pc[1] = "idle" /\ op[1].name = "delete" /\ res[1].kind = "ret" /\ redis
  /\ res[1].m0 = 1
  /\ Level >= 9

\* The effective TTL as the specification states it, for a level below 9.
SpecTTL(b, L) ==
  IF L >= 7 THEN Min(b, 60)
  ELSE IF L >= 5 THEN Max((4 * b) \div 5, 1)
  ELSE b

\* The level a shared-tier entry was written for: the one the monitor
\* reported to the writing call or, when the call had no monitor to ask, the
\* backend's own level.
WrittenAt(e) == IF e.lvl >= 0 THEN e.lvl ELSE Level

\* C7 (as claimed): every shared-tier entry written by get's write-back was
\* written at a pressure level L below 9 and expires after exactly the
\* effective TTL of its base TTL b (the override, else the default) and L:
\* min(b, 60) for 7 <= L < 9, max(floor(0.8 b), 1) for 5 <= L < 7, b for
\* L < 5.
C7_EffectiveTTL ==
  \A k \in Keys :
    l2[k].has =>
      /\ WrittenAt(l2[k]) < 9
      /\ l2[k].ttl = SpecTTL(l2[k].base, WrittenAt(l2[k]))

\* Every write made by a call that had a monitor to ask uses the effective
\* TTL for the level the monitor reported.
MonitoredWritesAdapt ==
  \A k \in Keys :
    (l2[k].has /\ l2[k].lvl >= 0) =>
      /\ l2[k].lvl < 9
      /\ l2[k].base \in {120, L2DefaultTTL}
      /\ l2[k].ttl = SpecTTL(l2[k].base, l2[k].lvl)

\* C8 (as claimed): every shared-tier call that raised was counted in errors,
\* once, and no call that met such a failure raised.
C8_FailuresAbsorbed ==
  /\ stats.errors = nfail
  /\ \A p \in Procs : res[p].fails > 0 => res[p].kind = "ret"

\* C9: a call that has ended, however it left the critical section, holds no
\* lock; a lock is only ever held by a call inside get's critical section.
C9_LockReleased ==
  \A i \in DOMAIN lk :
    lk[i].holder # 0 =>
      /\ pc[lk[i].holder] \in {"g_l2b", "g_load", "s_info", "s_set"}
      /\ loc[lk[i].holder].lock = i

\* C9's case: one call left the critical section by an exception or by
\* cancellation after it had invoked the loader, another by a cache hit under
\* the lock (the only hit the statistics do not count), and no lock is held.
C9_Witness ==
  /\ AllDone
  /\ \E p \in Procs : res[p].kind \in {"raise", "cancel"} /\ res[p].loaded = 1
  /\ \E p \in Procs : res[p].kind = "ret" /\ res[p].loaded = 0
                       /\ res[p].v # None
  /\ stats.l1_hits = 0 /\ stats.l2_hits = 0
  /\ Len(lk) > 0
  /\ \A i \in DOMAIN lk : lk[i].holder = 0

\* The value delete_pattern would return for a count.
CountValue(n) == ToString(n)

\* C10 (as claimed): delete_pattern(p), having met no failure, returns the
\* number of shared-tier keys that matched p when it was called, and no key
\* matching p is left in the shared tier.
C10_PatternCount ==
  (pc[1] = "idle" /\ op[1].name = "delete_pattern" /\ res[1].kind = "ret"
   /\ res[1].fails = 0 /\ redis)
    => /\ res[1].v = CountValue(res[1].m0)
       /\ \A k \in Keys : Matches(op[1].key, k) => L2Raw(St, k) = NoRaw

\* A call suspended on the monitor's `await self.redis.info("memory")`; it
\* issued the query at loc[p].tchk, to the monitor object loc[p].gg.
Querying(p) == pc[p] \in {"g_info", "s_info"}

\* C11 (as claimed): the monitor issues at most one backend memory query per
\* refresh_interval: any two queries of one monitor that are in flight at
\* the same time were issued at least refresh_interval seconds apart.
C11_OneQueryPerInterval ==
  \A p, q \in Procs :
    (p # q /\ Querying(p) /\ Querying(q) /\ loc[p].gg = loc[q].gg)
      => \/ loc[p].tchk - loc[q].tchk >= RefreshInterval
         \/ loc[q].tchk - loc[p].tchk >= RefreshInterval

\* C12: when the backend memory query of a check raises, the check stores no
\* snapshot and answers level 0 without raising: a set or write-back goes on
\* to write the shared tier with the base TTL, a get goes on to the lock and
\* the loader; the call does not raise at that point.
C12_QueryFailureAbsorbed ==
  [][\A p \in Procs :
       (Querying(p) /\ pc'[p] # pc[p] /\ ifail' = ifail + 1)
         => /\ gcached' = gcached /\ glast' = glast
            /\ pc'[p] = "idle" => res'[p].kind = "ret"
            /\ pc'[p] # "idle" => loc'[p].lvl = 0
            /\ pc[p] = "s_info"
                 => pc'[p] = "s_set" /\ loc'[p].ttl = BaseTTL(op[p])
            /\ pc[p] = "g_info"
                 => pc'[p] \in {"g_l2b", "g_load", "g_lock", "idle"}]_vars

\* C12's case: a set has returned after writing the shared tier with the
\* base TTL, its pressure query having failed (no snapshot is stored) while
\* the backend is at level 9 or 10.
C12_Witness ==
  /\ pc[1] = "idle" /\ op[1].name = "set" /\ res[1].kind = "ret"
  /\ res[1].lvl = 0 /\ guard /\ gcached = -1 /\ ifail = 1
  /\ Level >= 9
  /\ l2[op[1].key].has /\ l2[op[1].key].lvl = 0
  /\ l2[op[1].key].ttl = BaseTTL(op[1])

\* ------------------------------------------------------------------------
\* SpecLevel: one caller asks the monitor of an initialised, connected cache
\* for the pressure, up to MaxOps times, the backend reporting any sample
\* (used_memory, maxmemory) within the bounds.
Samples == [used : 0..MaxUsed, maxm : 0..MaxMem]
CheckOp == [name |-> "check", key |-> <<"task", "1">>, v |-> None, ttl |-> 0,
            ld |-> FALSE]

\* RedisMemoryGuard.check(), lines 36-43: the fresh snapshot, or the query.
CheckCall(p) ==
  /\ pc[p] = "idle"
  /\ quota[p] > 0
  /\ guard
  /\ LET S == Started(St, p, CheckOp) IN
     Becomes(IF CheckCached(S)
               THEN Return([S EXCEPT !.loc[p].lvl = S.gcached], p, None)
               ELSE [S EXCEPT !.pc[p] = "c_info", !.loc[p].tchk = S.now,
                              !.loc[p].gg = S.ggen])

\* Lines 43-85: the query answers or raises.  History: the level computed at
\* line 58 is kept in res[p].lvl also when the logging call after it raises.
CheckDone(p, ok) ==
  /\ pc[p] = "c_info"
  /\ LET r == CheckFinish(St, p, ok)
         S == [r.st EXCEPT !.loc[p].lvl = r.level]
     IN Becomes(IF r.raised THEN Raise(S, p, "TypeError")
                ELSE Return(S, p, None))

\* The state after `await cache_layer.init_cache()` has connected (lines
\* 149-157), as the application's lifespan leaves it.
InitLevel ==
  /\ pc = [p \in Procs |-> "idle"]
  /\ op = [p \in Procs |-> NoOp]
  /\ quota = [p \in Procs |-> IF p = 1 THEN MaxOps ELSE 0]
  /\ loc = [p \in Procs |-> NoLoc]
  /\ res = [p \in Procs |-> NoRes]
  /\ initialized = TRUE /\ redis = TRUE /\ guard = TRUE
  /\ ggen = 1 /\ gcached = -1 /\ glast = 0
  /\ l1 = [k \in Keys |-> NoEntry]
  /\ l2 = [k \in Keys |-> NoL2]
  /\ locks = [k \in Keys |-> NoLock]
  /\ lk = <<>>
  /\ stats = [l1_hits |-> 0, l2_hits |-> 0, misses |-> 0, errors |-> 0,
              pressure_skips |-> 0]
  /\ now = 0 /\ ticks = 0
  /\ loads = [k \in Keys |-> 0]
  /\ nfail = 0 /\ ifail = 0
  /\ db = RowOld
  /\ mem \in Samples

NextLevel ==
  \/ CheckCall(1)
  \/ \E ok \in BOOLEAN : CheckDone(1, ok)
  \/ \E d \in TickSteps : Tick(d)

SpecLevel == InitLevel /\ [][NextLevel]_vars

\* The level as the specification states it: 0 without a memory ceiling,
\* else floor(min(used / max, 1) * 10).
SpecLevelOf(u, m) ==
  IF m = 0 THEN 0
  ELSE IF u >= m THEN 10
  ELSE CHOOSE n \in 0..9 : n * m <= 10 * u /\ 10 * u < (n + 1) * m

\* C13: the level the monitor computes for a sample (used, max), used >= 0,
\* is 0 when max = 0 and floor(min(used / max, 1) * 10) otherwise, and is an
\* integer in 0..10.
C13_LevelFormula ==
  \A p \in Procs :
    (pc[p] = "idle" /\ op[p].name = "check" /\ res[p].kind # "none"
     /\ ifail = 0)
      => /\ res[p].lvl = SpecLevelOf(mem.used, mem.maxm)
         /\ res[p].lvl \in 0..10

\* C13's case: the monitor has computed the level of a sample that lies
\* above its ceiling: 10, by the clamp.
C13_Witness ==
  /\ pc[1] = "idle" /\ op[1].name = "check" /\ res[1].kind # "none"
  /\ ifail = 0
  /\ mem.maxm > 0 /\ mem.used > mem.maxm
  /\ res[1].lvl = 10

\* ------------------------------------------------------------------------
\* SpecDown: the backend is down and stays down.  init_cache has failed to
\* connect once (lines 159-163 leave the connection and the monitor unset
\* and _initialized False); then NProcs calls are made concurrently, each a
\* get with a loader, a set or a delete on one key, and every backend call
\* raises RedisError.
DownOps ==
  {[name |-> "get", key |-> FlightKey, v |-> None, ttl |-> 0, ld |-> TRUE],
   [name |-> "set", key |-> FlightKey, v |-> "plain", ttl |-> 0, ld |-> FALSE],
   [name |-> "delete", key |-> FlightKey, v |-> None, ttl |-> 0, ld |-> FALSE]}

InitDown ==
  /\ pc = [p \in Procs |-> "start"]
  /\ op \in [Procs -> DownOps]
  /\ quota = [p \in Procs |-> 0]
  /\ loc = [p \in Procs |-> [NoLoc EXCEPT !.val = op[p].v]]
  /\ res = [p \in Procs |-> NoRes]
  /\ initialized = FALSE /\ redis = FALSE /\ guard = FALSE
  /\ ggen = 0 /\ gcached = -1 /\ glast = 0
  /\ l1 = [k \in Keys |-> NoEntry]
  /\ l2 = [k \in Keys |-> NoL2]
  /\ locks = [k \in Keys |-> NoLock]
  /\ lk = <<>>
  /\ stats = [l1_hits |-> 0, l2_hits |-> 0, misses |-> 0, errors |-> 0,
              pressure_skips |-> 0]
  /\ now = 0 /\ ticks = 0
  /\ loads = [k \in Keys |-> 0]
  /\ nfail = 0 /\ ifail = 1
  /\ db = RowOld
  /\ mem \in FlightMem

NextDown ==
  \/ \E p \in Procs : Begin(p)
  \/ \E p \in Procs : PingDone(p, FALSE)
  \/ \E p \in Procs : L2GetDone(p, FALSE)
  \/ \E p \in Procs : InfoDone(p, FALSE)
  \/ \E p \in Procs : LockAcquired(p)
  \/ \E p \in Procs, r \in LoaderResults : LoaderDone(p, r)
  \/ \E p \in Procs : RedisSetDone(p, FALSE)
  \/ \E p \in Procs : RedisDeleteDone(p, FALSE)

SpecDown == InitDown /\ [][NextDown]_vars

\* C14 (as claimed): after init_cache could not connect, with the backend
\* still down, every get, set and delete that has ended returned without
\* raising (a loader's own exception apart) and the shared tier was neither
\* read nor written; a get with a loader that returned loaded the value.
C14_DegradedUsable ==
  \A p \in Procs :
    (pc[p] = "idle" /\ res[p].kind # "none")
      => /\ res[p].kind = "ret" \/ res[p].v = "LoaderError"
         /\ res[p].fails = 0
         /\ (op[p].name = "get" /\ res[p].kind = "ret" /\ res[p].loaded = 0)
              => res[p].v # None

\* C15 (as claimed): once one call of init_cache has completed, connected or
\* degraded, no further call does any work: only the caller's first call
\* ever opens a connection and pings, and the monitor is created at most
\* once.
C15_InitOnce ==
  /\ \A p \in Procs : pc[p] = "ping" => quota[p] = MaxOps - 1
  /\ ggen <= 1

\* C16: at the step at which get's loader returns None, get returns None and
\* neither tier changes; the key is in neither tier afterwards, so that the
\* next get for it has to go to the loader again.
C16_NegativeNotCached ==
  [][\A p \in Procs :
       (pc[p] = "g_load" /\ pc'[p] = "idle"
        /\ res'[p].kind = "ret" /\ res'[p].v = None)
         => /\ l1' = l1 /\ l2' = l2
            /\ ~(l1'[op[p].key].has /\ now' < l1'[op[p].key].exp)
            /\ ~(l2'[op[p].key].has /\ now' < l2'[op[p].key].exp)]_vars

\* C16's case: a get whose loader returned None has returned None, and it
\* was the second get in a row to invoke the loader for that key, no time
\* having passed: the first had cached nothing.
C16_Witness ==
  /\ pc[1] = "idle" /\ op[1].name = "get" /\ res[1].kind = "ret"
  /\ res[1].v = None /\ res[1].loaded = 1
  /\ loads[op[1].key] = 2 /\ ticks = 0
  /\ TiersEmpty(op[1].key)

\* C17 (as claimed): when the pressure query of a set or of get's write-back
\* answers with a level of 9 or 10, the local tier holds the value, no
\* shared-tier write is issued, the shared tier is unchanged, pressure_skips
\* grows by exactly 1 and the call returns.
C17_SkipsSharedWrite ==
  [][\A p \in Procs :
       (pc[p] = "s_info" /\ pc'[p] # "s_info" /\ ifail' = ifail
        /\ Level >= 9)
         => /\ pc'[p] = "idle" /\ res'[p].kind = "ret"
            /\ stats'.pressure_skips = stats.pressure_skips + 1
            /\ l2' = l2
            /\ l1'[op[p].key].has /\ l1'[op[p].key].v = loc[p].val]_vars

\* C18: when get's first shared-tier lookup answers for a key that the local
\* tier lacks and the shared tier holds, get returns the shared tier's value
\* at once, without invoking the loader, l2_hits grows by one and nothing
\* else is counted, and the local tier holds that value for its full TTL, so
\* that the next get is a local hit.
C18_SharedHitPopulates ==
  [][\A p \in Procs :
       (pc[p] = "g_l2" /\ pc'[p] # "g_l2" /\ nfail' = nfail
        /\ res'[p].kind # "cancel"
        /\ l2[op[p].key].has /\ now < l2[op[p].key].exp)
         => /\ pc'[p] = "idle" /\ res'[p].kind = "ret"
            /\ res'[p].v = l2[op[p].key].raw[2]
            /\ res'[p].loaded = 0 /\ loads' = loads
            /\ stats' = [stats EXCEPT !.l2_hits = @ + 1]
            /\ l1'[op[p].key] = [has |-> TRUE, v |-> res'[p].v,
                                 exp |-> now + L1TTL]
            /\ l2' = l2]_vars

\* C18's case: a get has returned from the shared tier a value that a set
\* had stored there, after the local copy had expired, and the local tier
\* holds it again.
C18_Witness ==
  /\ pc[1] = "idle" /\ op[1].name = "get" /\ op[1].ld
  /\ res[1].kind = "ret" /\ res[1].loaded = 0
  /\ stats.l2_hits = 1 /\ stats.l1_hits = 0
  /\ res[1].v = Deserialize(Serialize("rich"))
  /\ L1Has(St, op[1].key) /\ l1[op[1].key].v = res[1].v
  /\ l1[op[1].key].exp = now + L1TTL

\* ---------------------------------------------------------------------
\* get_stats() applied to counters of every size up to MaxCount.

MaxCount == 3

Counters ==
  [l1_hits : 0..MaxCount, l2_hits : 0..MaxCount, misses : 0..MaxCount,
   errors : {0}, pressure_skips : {0}]

\* A hit rate that counts the local hits only.
HitRateL1Only(s) ==
  LET total == s.l1_hits + s.l2_hits + s.misses
  IN IF total > 0 THEN [num |-> s.l1_hits, den |-> total]
     ELSE [num |-> 0, den |-> 1]

\* Lines 409-411 and 417-421: the quotient (l1_hits + l2_hits) / total as the
\* fraction num/den, and 0 when total is 0.
HitRate(s) ==
  LET total == s.l1_hits + s.l2_hits + s.misses
  IN IF total > 0 THEN [num |-> s.l1_hits + s.l2_hits, den |-> total]
     ELSE [num |-> 0, den |-> 1]

\* Lines 413-428: the counters, the local tier's size, the hit rate, and the
\* monitor's snapshot when there is one.
GetStats(S) ==
  [counters |-> S.stats,
   l1_size |-> Cardinality({k \in Keys : L1Has(S, k)}),
   hit_rate |-> HitRate(S.stats),
   redis_pressure |-> IF S.guard /\ S.gcached # -1 THEN S.gcached ELSE -1]

StatsOp ==
  [name |-> "get_stats", key |-> <<"task", "1">>, v |-> None, ttl |-> 0,
   ld |-> FALSE]

\* get_stats() is synchronous: it runs from call to return in one step.
StatsCall(p) ==
  /\ pc[p] = "idle"
  /\ quota[p] > 0
  /\ LET S == Started(St, p, StatsOp) IN Becomes(Return(S, p, GetStats(S)))

InitStats ==
  /\ pc = [p \in Procs |-> "idle"]
  /\ op = [p \in Procs |-> NoOp]
  /\ quota = [p \in Procs |-> IF p = 1 THEN MaxOps ELSE 0]
  /\ loc = [p \in Procs |-> NoLoc]
  /\ res = [p \in Procs |-> NoRes]
  /\ initialized = TRUE /\ redis = TRUE /\ guard = TRUE
  /\ ggen = 1 /\ gcached = -1 /\ glast = 0
  /\ l1 = [k \in Keys |-> NoEntry]
  /\ l2 = [k \in Keys |-> NoL2]
  /\ locks = [k \in Keys |-> NoLock]
  /\ lk = <<>>
  /\ stats \in Counters
  /\ now = 0 /\ ticks = 0
  /\ mem \in FlightMem
  /\ loads = [k \in Keys |-> 0]
  /\ nfail = 0 /\ ifail = 0
  /\ db = RowOld

NextStats == StatsCall(1)

SpecStats == InitStats /\ [][NextStats]_vars

\* C19: the hit_rate that get_stats() returns is 0 when l1_hits + l2_hits +
\* misses is 0, and otherwise the quotient of l1_hits + l2_hits by
\* l1_hits + l2_hits + misses.
C19_HitRate ==
  \A p \in Procs :
    (pc[p] = "idle" /\ op[p].name = "get_stats" /\ res[p].kind = "ret")
      => LET h == res[p].v.hit_rate
             hits == stats.l1_hits + stats.l2_hits
             sum == stats.l1_hits + stats.l2_hits + stats.misses
         IN /\ h.den > 0
            /\ sum = 0 => h.num = 0
            /\ sum # 0 => h.num * sum = hits * h.den

\* C19's case: get_stats() has returned with two hits in each tier and one
\* miss counted, and reports four fifths.
C19_Witness ==
  /\ pc[1] = "idle" /\ op[1].name = "get_stats" /\ res[1].kind = "ret"
  /\ stats.l1_hits = 2 /\ stats.l2_hits = 2 /\ stats.misses = 1
  /\ res[1].v.hit_rate.num * 5 = 4 * res[1].v.hit_rate.den

\* C20 (as claimed): at pressure level 10 no get(k, loader) returns without
\* having invoked the loader, whatever the tiers hold: in particular none
\* returns in the very step in which it is called.
C20_EmergencySkipsTiers ==
  [][\A p \in Procs :
       (/\ pc[p] = "idle" /\ pc'[p] = "idle" /\ quota'[p] = quota[p] - 1
        /\ op'[p].name = "get" /\ op'[p].ld
        /\ Level = 10
        /\ res'[p].kind = "ret")
         => res'[p].loaded = 1]_vars

\* ---------------------------------------------------------------------
\* SpecWarm: the cache is connected and some keys were stored by set(k,
\* "plain") at time 0 under no pressure; one caller then makes up to MaxOps
\* calls among delete_pattern, get and delete, while time passes and the
\* backend fails at will.
CalmMem == [used |-> 3, maxm |-> 10]

\* What set(k, "plain") leaves in the two tiers (lines 307 and 321).
StoredL1 == [has |-> TRUE, v |-> "plain", exp |-> L1TTL]
StoredL2 ==
  [has |-> TRUE, raw |-> Serialize("plain"), ttl |-> L2DefaultTTL,
   exp |-> L2DefaultTTL, base |-> L2DefaultTTL, lvl |-> PressureLevel(CalmMem)]

WarmOps ==
  PatternOps \cup DeleteOps \cup {o \in GetOps : o.ttl = 0}

InitWarm ==
  /\ pc = [p \in Procs |-> "idle"]
  /\ op = [p \in Procs |-> NoOp]
  /\ quota = [p \in Procs |-> IF p = 1 THEN MaxOps ELSE 0]
  /\ loc = [p \in Procs |-> NoLoc]
  /\ res = [p \in Procs |-> NoRes]
  /\ initialized = TRUE /\ redis = TRUE /\ guard = TRUE
  /\ ggen = 1 /\ gcached = PressureLevel(CalmMem) /\ glast = 0
  /\ \E held \in SUBSET Keys :
       /\ l1 = [k \in Keys |-> IF k \in held THEN StoredL1 ELSE NoEntry]
       /\ l2 = [k \in Keys |-> IF k \in held THEN StoredL2 ELSE NoL2]
  /\ locks = [k \in Keys |-> NoLock]
  /\ lk = <<>>
  /\ stats = [l1_hits |-> 0, l2_hits |-> 0, misses |-> 0, errors |-> 0,
              pressure_skips |-> 0]
  /\ now = 0 /\ ticks = 0
  /\ mem = CalmMem
  /\ loads = [k \in Keys |-> 0]
  /\ nfail = 0 /\ ifail = 0
  /\ db = RowOld

NextWarm ==
  \/ \E o \in WarmOps : Call(1, o)
  \/ \E ok \in BOOLEAN : L2GetDone(1, ok)
  \/ \E ok \in BOOLEAN : InfoDone(1, ok)
  \/ \E ok \in BOOLEAN : L2RecheckDone(1, ok)
  \/ \E r \in LoaderResults : LoaderDone(1, r)
  \/ \E ok \in BOOLEAN : RedisSetDone(1, ok)
  \/ \E ok \in BOOLEAN : RedisDeleteDone(1, ok)
  \/ \E ok \in BOOLEAN, b \in SUBSET Keys : ScanDone(1, ok, b)
  \/ \E ok \in BOOLEAN : BatchDeleteDone(1, ok)
  \/ \E d \in TickSteps : Tick(d)

SpecWarm == InitWarm /\ [][NextWarm]_vars

\* C21: no step of a delete_pattern call changes the local tier, and a
\* get(k) called once delete_pattern(q) has returned, for a key k that
\* matches q and is in the local tier, returns the local tier's value at
\* once, as a local hit.
C21_PatternLeavesLocalTier ==
  [][\A p \in Procs :
       /\ (op'[p].name = "delete_pattern"
           /\ (pc'[p] # pc[p] \/ quota'[p] # quota[p]))
            => l1' = l1
       /\ (/\ pc[p] = "idle" /\ op[p].name = "delete_pattern"
           /\ res[p].kind = "ret"
           /\ quota'[p] = quota[p] - 1 /\ op'[p].name = "get"
           /\ Matches(op[p].key, op'[p].key)
           /\ L1Has(St, op'[p].key))
            => /\ pc'[p] = "idle" /\ res'[p].kind = "ret"
               /\ res'[p].v = l1[op'[p].key].v
               /\ res'[p].loaded = 0
               /\ stats'.l1_hits = stats.l1_hits + 1
               /\ l1' = l1]_vars

\* C21's case: a key was in both tiers; delete_pattern has removed it from
\* the shared tier, and the get that followed was served from the local tier.
C21_Witness ==
  /\ pc[1] = "idle" /\ op[1].name = "get" /\ res[1].kind = "ret"
  /\ res[1].v = "plain" /\ res[1].loaded = 0
  /\ stats.l1_hits = 1 /\ ticks = 0 /\ quota[1] = MaxOps - 2
  /\ ~l2[op[1].key].has /\ L1Has(St, op[1].key)

\* ---------------------------------------------------------------------
\* SpecKeys: NProcs concurrent get(k, loader) calls, each on a key of its
\* own choice, each a task of its own, on the freshly constructed cache.
InitKeys ==
  /\ Constructed
  /\ pc = [p \in Procs |-> "start"]
  /\ op \in [Procs -> {o \in GetOps : o.ld /\ o.ttl = 120}]
  /\ quota = [p \in Procs |-> 0]
  /\ mem = CalmMem

SpecKeys == InitKeys /\ [][NextGets]_vars

\* The calls that hold lock id or wait for it.
LockUsers(id) ==
  {q \in Procs : lk[id].holder = q
                 \/ \E i \in DOMAIN lk[id].waiters : lk[id].waiters[i] = q}

\* C22: a get(k1, loader) waiting for its lock waits only behind calls on
\* the same key k1: every call that holds that lock or queues for it runs on
\* k1, and calls on different keys never use the same lock.
C22_LocksPerKey ==
  /\ \A p \in Procs :
       pc[p] = "g_lock"
         => \A q \in LockUsers(loc[p].lock) : op[q].key = op[p].key
  /\ \A p, q \in Procs :
       (UsesLock(p) /\ UsesLock(q) /\ op[p].key # op[q].key)
         => loc[p].lock # loc[q].lock

\* C22's case: one call's loader is in flight under its key's lock while
\* a call on another key has taken its own lock, loaded and returned.
C22_Witness ==
  \E p, q \in Procs :
    /\ op[p].key # op[q].key
    /\ pc[p] = "g_load" /\ loc[p].lock # 0 /\ lk[loc[p].lock].holder = p
    /\ pc[q] = "idle" /\ res[q].kind = "ret" /\ res[q].loaded = 1
    /\ res[q].v = "plain"
    /\ loads[op[p].key] = 1 /\ loads[op[q].key] = 1
    /\ ticks = 0

\* ---------------------------------------------------------------------
\* SpecInval: on a connected, empty cache one get(k, loader) runs as a task
\* while a second caller makes one delete(k) at any moment.
InitInval ==
  /\ pc = [p \in Procs |-> IF p = 1 THEN "start" ELSE "idle"]
  /\ op = [p \in Procs |->
             IF p = 1 THEN [name |-> "get", key |-> FlightKey, v |-> None,
                            ttl |-> 120, ld |-> TRUE]
             ELSE NoOp]
  /\ quota = [p \in Procs |-> IF p = 2 THEN 1 ELSE 0]
  /\ loc = [p \in Procs |-> NoLoc]
  /\ res = [p \in Procs |-> NoRes]
  /\ initialized = TRUE /\ redis = TRUE /\ guard = TRUE
  /\ ggen = 1 /\ gcached = -1 /\ glast = 0
  /\ l1 = [k \in Keys |-> NoEntry]
  /\ l2 = [k \in Keys |-> NoL2]
  /\ locks = [k \in Keys |-> NoLock]
  /\ lk = <<>>
  /\ stats = [l1_hits |-> 0, l2_hits |-> 0, misses |-> 0, errors |-> 0,
              pressure_skips |-> 0]
  /\ now = 0 /\ ticks = 0
  /\ mem \in FlightMem
  /\ loads = [k \in Keys |-> 0]
  /\ nfail = 0 /\ ifail = 0
  /\ db = RowOld

NextInval ==
  \/ Begin(1)
  \/ \E o \in {x \in DeleteOps : x.key = FlightKey} : Call(2, o)
  \/ \E p \in Procs, ok \in BOOLEAN : L2GetDone(p, ok)
  \/ \E p \in Procs, ok \in BOOLEAN : InfoDone(p, ok)
  \/ \E p \in Procs, ok \in BOOLEAN : L2RecheckDone(p, ok)
  \/ \E p \in Procs, r \in LoaderResults : LoaderDone(p, r)
  \/ \E p \in Procs, ok \in BOOLEAN : RedisSetDone(p, ok)
  \/ \E p \in Procs, ok \in BOOLEAN : RedisDeleteDone(p, ok)
  \/ \E d \in TickSteps : Tick(d)

SpecInval == InitInval /\ [][NextInval]_vars

\* C23 (as claimed): once delete(k) has returned, and no set(k) was made and
\* no loader for k was invoked after the delete was called, k is in neither
\* tier: a loader that was in flight when the delete was called does not
\* put its value back.
C23_DeleteNotUndone ==
  \A d \in Procs :
    (/\ pc[d] = "idle" /\ op[d].name = "delete" /\ res[d].kind = "ret"
     /\ loads[op[d].key] = res[d].l0)
      => TiersEmpty(op[d].key)

\* ---------------------------------------------------------------------
\* SpecTasks: the service's cached functions on task 1.  A writer calls
\* update_task (wrapped by async_cached_expire) once; a reader calls get_task
\* (wrapped by async_cached) up to MaxOps times, one call after the other;
\* the two run concurrently on a connected, empty cache.
Writer == 1
Reader == 2

\* decorators.py:38-41 with task_service.py:46: the key and the call.
UpdateTaskOp ==
  [name |-> "update_task", key |-> FlightKey, v |-> None, ttl |-> 0,
   ld |-> FALSE]

\* decorators.py:17-28 with task_service.py:39: get(key, loader, l2_ttl=120).
GetTaskOp ==
  [name |-> "get", key |-> FlightKey, v |-> None, ttl |-> 120, ld |-> TRUE]

\* task_service.py:47-56 under decorators.py:41: the wrapped update_task
\* commits the new row and returns it.
FnDone(p) ==
  /\ pc[p] = "x_fn"
  /\ Becomes(Return([St EXCEPT !.db = RowNew], p, RowNew))

\* decorators.py:20-26 with task_service.py:40-42: get_task's loader reads
\* the row and returns its model_dump().
RowLoaded(p) == LoaderDone(p, db)

InitTasks ==
  /\ pc = [p \in Procs |-> "idle"]
  /\ op = [p \in Procs |-> NoOp]
  /\ quota = [p \in Procs |->
                IF p = Writer THEN 1 ELSE IF p = Reader THEN MaxOps ELSE 0]
  /\ loc = [p \in Procs |-> NoLoc]
  /\ res = [p \in Procs |-> NoRes]
  /\ initialized = TRUE /\ redis = TRUE /\ guard = TRUE
  /\ ggen = 1 /\ gcached = -1 /\ glast = 0
  /\ l1 = [k \in Keys |-> NoEntry]
  /\ l2 = [k \in Keys |-> NoL2]
  /\ locks = [k \in Keys |-> NoLock]
  /\ lk = <<>>
  /\ stats = [l1_hits |-> 0, l2_hits |-> 0, misses |-> 0, errors |-> 0,
              pressure_skips |-> 0]
  /\ now = 0 /\ ticks = 0
  /\ mem = CalmMem
  /\ loads = [k \in Keys |-> 0]
  /\ nfail = 0 /\ ifail = 0
  /\ db = RowOld

NextTasks ==
  \/ Call(Writer, UpdateTaskOp)
  \/ Call(Reader, GetTaskOp)
  \/ \E ok \in BOOLEAN : RedisDeleteDone(Writer, ok)
  \/ FnDone(Writer)
  \/ \E ok \in BOOLEAN : L2GetDone(Reader, ok)
  \/ \E ok \in BOOLEAN : InfoDone(Reader, ok)
  \/ \E ok \in BOOLEAN : L2RecheckDone(Reader, ok)
  \/ RowLoaded(Reader)
  \/ \E ok \in BOOLEAN : RedisSetDone(Reader, ok)
  \/ \E d \in TickSteps : Tick(d)

SpecTasks == InitTasks /\ [][NextTasks]_vars

\* The row as it was before the write, as either tier may return it.
OldData == {RowOld, JsonForm(RowOld)}

\* C24 (as claimed): once update_task has returned, a get_task call on the
\* same key does not return the row as it was before update_task's write;
\* stated for the runs in which no backend call has failed.
C24_NoStaleReadAfterWrite ==
  [][(/\ pc[Writer] = "idle" /\ op[Writer].name = "update_task"
      /\ res[Writer].kind = "ret"
      /\ nfail = 0 /\ ifail = 0
      /\ quota'[Reader] = quota[Reader] - 1
      /\ pc'[Reader] = "idle" /\ res'[Reader].kind = "ret")
       => res'[Reader].v \notin OldData]_vars

\* C25 (as claimed): no call uses the connection after a concurrent
\* init_cache has cleared it: no call ends with the AttributeError that a
\* shared-tier call on the missing connection raises.
C25_ConnectionStillThere ==
  \A p \in Procs : ~(res[p].kind = "raise" /\ res[p].v = "AttributeError")

\* ---------------------------------------------------------------------
\* SpecSets: NProcs concurrent set(k, v) calls on one key, each a task of
\* its own with a value of its own choice, on a connected cache.
InitSets ==
  /\ pc = [p \in Procs |-> "start"]
  /\ op \in [Procs -> {o \in SetOps : o.key = FlightKey /\ o.ttl = 0}]
  /\ quota = [p \in Procs |-> 0]
  /\ loc = [p \in Procs |-> [NoLoc EXCEPT !.val = op[p].v]]
  /\ res = [p \in Procs |-> NoRes]
  /\ initialized = TRUE /\ redis = TRUE /\ guard = TRUE
  /\ ggen = 1 /\ gcached = -1 /\ glast = 0
  /\ l1 = [k \in Keys |-> NoEntry]
  /\ l2 = [k \in Keys |-> NoL2]
  /\ locks = [k \in Keys |-> NoLock]
  /\ lk = <<>>
  /\ stats = [l1_hits |-> 0, l2_hits |-> 0, misses |-> 0, errors |-> 0,
              pressure_skips |-> 0]
  /\ now = 0 /\ ticks = 0
  /\ mem \in MemChoices
  /\ loads = [k \in Keys |-> 0]
  /\ nfail = 0 /\ ifail = 0
  /\ db = RowOld

NextSets ==
  \/ \E p \in Procs : Begin(p)
  \/ \E p \in Procs, ok \in BOOLEAN : InfoDone(p, ok)
  \/ \E p \in Procs, ok \in BOOLEAN : RedisSetDone(p, ok)
  \/ \E d \in TickSteps : Tick(d)

SpecSets == InitSets /\ [][NextSets]_vars

\* C26 (as claimed): at a pressure level below 9, no backend call having
\* failed and no time having passed, once all the concurrent set(k, v_i)
\* calls have returned, both tiers hold k and the shared tier holds the
\* stored form of the value the local tier holds.
C26_TiersAgree ==
  (/\ AllDone /\ \A p \in Procs : res[p].kind = "ret"
   /\ Level < 9 /\ nfail = 0 /\ ifail = 0 /\ ticks = 0)
    => /\ L1Has(St, FlightKey)
       /\ L2Raw(St, FlightKey) # NoRaw
       /\ L2Raw(St, FlightKey) = Serialize(l1[FlightKey].v)

\* ---------------------------------------------------------------------
\* SpecLive: the concurrent gets of SpecGets at one instant (the clock does
\* not advance), on an event loop that runs every task that is ready, with
\* a backend and loaders that answer or fail every call: the pending step
\* of each call is eventually taken.  A caller may cancel its call; nothing
\* forces it to.
Step(p) ==
  \/ Begin(p)
  \/ \E ok \in BOOLEAN : PingDone(p, ok)
  \/ \E ok \in BOOLEAN : L2GetDone(p, ok)
  \/ \E ok \in BOOLEAN : InfoDone(p, ok)
  \/ LockAcquired(p)
  \/ \E ok \in BOOLEAN : L2RecheckDone(p, ok)
  \/ \E r \in LoaderResults : LoaderDone(p, r)
  \/ \E ok \in BOOLEAN : RedisSetDone(p, ok)

NextLive ==
  \/ \E p \in Procs : Step(p)
  \/ \E p \in Procs : Cancel(p)

SpecLive == InitGets /\ [][NextLive]_vars /\ \A p \in Procs : WF_vars(Step(p))

\* C27: every get(k, loader) call eventually ends, and a call waiting for
\* the key's lock eventually leaves the queue with the lock.
C27_Progress ==
  /\ \A p \in Procs : <>(pc[p] = "idle")
  /\ \A p \in Procs : (pc[p] = "g_lock") ~> (pc[p] # "g_lock")

\* C27's case: one call waits in the queue of the lock another call holds
\* while its loader is in flight.
C27_Witness ==
  \E p, q \in Procs :
    /\ pc[p] = "g_lock" /\ pc[q] = "g_load"
    /\ loc[p].lock = loc[q].lock
    /\ lk[loc[q].lock].holder = q
    /\ lk[loc[p].lock].waiters = <<p>>
====
